---- MODULE Spec2Model ----
(***************************************************************************)
(* Model of the vendor reconciliation run of app.py: schema resolution and *)
(* cleaning of the two statements, the outer merge, variance and status    *)
(* classification, the fuzzy check and the buckets.                        *)
(*                                                                         *)
(* Text (column names, cells, clean ids) is a sequence of one-character    *)
(* strings.  An amount is an integer number of cents once it has been      *)
(* rounded to 2 decimals; a possibly-missing amount of the merged frame is *)
(* a record [na, val], na = TRUE standing for NaN.                         *)
(***************************************************************************)
EXTENDS Integers, Sequences, FiniteSets, TLC

\* ------------------------------------------------------------------
\* Bounds of the model
\* ------------------------------------------------------------------
MaxRows == 2      \* rows per statement in a reconciliation run
MaxIdLen == 3     \* length of the enumerated raw identifiers
MaxAmtLen == 3    \* length of the enumerated raw amount cells
MaxCols == 2      \* columns per statement in the enumerated headers

\* ------------------------------------------------------------------
\* Characters
\* ------------------------------------------------------------------
UpperLetters == <<"A","B","C","D","E","F","G","H","I","J","K","L","M",
                  "N","O","P","Q","R","S","T","U","V","W","X","Y","Z">>
LowerLetters == <<"a","b","c","d","e","f","g","h","i","j","k","l","m",
                  "n","o","p","q","r","s","t","u","v","w","x","y","z">>
Digits == <<"0","1","2","3","4","5","6","7","8","9">>

Range(s) == {s[i] : i \in 1..Len(s)}

IndexIn(c, s) == CHOOSE i \in 1..Len(s) : s[i] = c

IsUpper(c) == c \in Range(UpperLetters)
IsLower(c) == c \in Range(LowerLetters)
IsDigit(c) == c \in Range(Digits)

\* \w of the regular expressions: letters, digits and the underscore
IsWordChar(c) == IsUpper(c) \/ IsLower(c) \/ IsDigit(c) \/ c = "_"

DigitVal(c) == IndexIn(c, Digits) - 1

\* ASCII code of the characters the model uses (orders the merge keys)
Ord(c) ==
  IF IsDigit(c) THEN 48 + DigitVal(c)
  ELSE IF IsUpper(c) THEN 64 + IndexIn(c, UpperLetters)
  ELSE IF IsLower(c) THEN 96 + IndexIn(c, LowerLetters)
  ELSE IF c = "_" THEN 95
  ELSE IF c = " " THEN 32
  ELSE IF c = "#" THEN 35
  ELSE IF c = "$" THEN 36
  ELSE IF c = "(" THEN 40
  ELSE IF c = ")" THEN 41
  ELSE IF c = "+" THEN 43
  ELSE IF c = "," THEN 44
  ELSE IF c = "-" THEN 45
  ELSE 46

\* str.upper / str.lower, one character
UpperChar(c) == IF IsLower(c) THEN UpperLetters[IndexIn(c, LowerLetters)] ELSE c
LowerChar(c) == IF IsUpper(c) THEN LowerLetters[IndexIn(c, UpperLetters)] ELSE c

StrUpper(s) == [i \in 1..Len(s) |-> UpperChar(s[i])]
StrLower(s) == [i \in 1..Len(s) |-> LowerChar(s[i])]

\* str.lstrip(ch)
RECURSIVE LStrip(_, _)
LStrip(s, ch) ==
  IF s # <<>> /\ Head(s) = ch THEN LStrip(Tail(s), ch) ELSE s

RECURSIVE RStrip(_, _)
RStrip(s, ch) ==
  IF s # <<>> /\ s[Len(s)] = ch THEN RStrip(SubSeq(s, 1, Len(s) - 1), ch) ELSE s

\* str.strip() on the whitespace the model uses
StrStrip(s) == RStrip(LStrip(s, " "), " ")

\* Python's  sub in s
Contains(sub, s) ==
  \E i \in 0..(Len(s) - Len(sub)) : SubSeq(s, i + 1, i + Len(sub)) = sub


\* decimal value of a string of digits
RECURSIVE DigitsValue(_)
DigitsValue(ds) ==
  IF ds = <<>> THEN 0
  ELSE 10 * DigitsValue(SubSeq(ds, 1, Len(ds) - 1)) + DigitVal(ds[Len(ds)])

RECURSIVE Pow10(_)
Pow10(n) == IF n = 0 THEN 1 ELSE 10 * Pow10(n - 1)

Abs(x) == IF x < 0 THEN -x ELSE x

\* lexicographic order of two texts by character code
RECURSIVE StrLess(_, _)
StrLess(a, b) ==
  IF b = <<>> THEN FALSE
  ELSE IF a = <<>> THEN TRUE
  ELSE IF Ord(Head(a)) < Ord(Head(b)) THEN TRUE
  ELSE IF Ord(Head(a)) > Ord(Head(b)) THEN FALSE
  ELSE StrLess(Tail(a), Tail(b))

\* ------------------------------------------------------------------
\* Column resolution (clean_vendor_data / clean_internal_data)
\* ------------------------------------------------------------------
\* df.columns.astype(str).str.strip().str.lower()
NormalizeColumns(cols) == [i \in 1..Len(cols) |-> StrLower(StrStrip(cols[i]))]

kw_invoice == <<"i","n","v","o","i","c","e">>
kw_inv == <<"i","n","v">>
kw_amount == <<"a","m","o","u","n","t">>
kw_due == <<"d","u","e">>
kw_external == <<"e","x","t","e","r","n","a","l">>
kw_document == <<"d","o","c","u","m","e","n","t">>

IsVendorInvCol(c) == Contains(kw_invoice, c) \/ Contains(kw_inv, c)
\* variant: 'due' is not an amount keyword
IsVendorAmtCol_NoDue(c) == Contains(kw_amount, c)

IsVendorAmtCol(c) == Contains(kw_amount, c) \/ Contains(kw_due, c)
IsInternalInvCol(c) == Contains(kw_external, c) /\ Contains(kw_document, c)
IsInternalAmtCol(c) == Contains(kw_amount, c)

\* next((c for c in df.columns if ...), None), given for each column whether
\* it satisfies the condition: the position of the first column that does,
\* 0 for None
FirstCol(hits) ==
  IF \E i \in 1..Len(hits) : hits[i]
  THEN CHOOSE i \in 1..Len(hits) : hits[i] /\ \A j \in 1..(i - 1) : ~hits[j]
  ELSE 0

\* ------------------------------------------------------------------
\* Cell normalisation
\* ------------------------------------------------------------------
\* variant: the identifier is not upper-cased
CleanId_NoUpper(raw) == LStrip(SelectSeq(raw, IsWordChar), "0")

\* .str.replace(r'\W+', '', regex=True).str.upper().str.lstrip('0')
CleanId(raw) == LStrip(StrUpper(SelectSeq(raw, IsWordChar)), "0")

IsAmountNoise(c) == c \in {",", "$", " "}
IsAmountText(c) == ~IsAmountNoise(c)

\* .str.replace(r'[,$\s]', '', regex=True)
CleanAmountText(raw) == SelectSeq(raw, IsAmountText)

IsDot(c) == c = "."

\* pd.to_numeric(..., errors='coerce') on a decimal literal: an optional
\* sign, digits with at most one point and at least one digit; anything
\* else is NaN.  The value is sign * num / 10^scale.
ToNumeric(s) ==
  LET signed == s # <<>> /\ Head(s) \in {"-", "+"}
      neg == s # <<>> /\ Head(s) = "-"
      body == IF signed THEN Tail(s) ELSE s
      dots == SelectSeq(body, IsDot)
      ds == SelectSeq(body, IsDigit)
      wellformed == /\ ds # <<>>
                    /\ Len(dots) <= 1
                    /\ Len(ds) + Len(dots) = Len(body)
      scale == IF dots = <<>> THEN 0 ELSE Len(body) - IndexIn(".", body)
  IN  IF wellformed
      THEN [na |-> FALSE, neg |-> neg, num |-> DigitsValue(ds), scale |-> scale]
      ELSE [na |-> TRUE, neg |-> FALSE, num |-> 0, scale |-> 0]

\* .round(2) of num / 10^scale, in cents.  numpy rounds x by rint(x * 100)
\* / 100 and rint sends a tie to the even neighbour.
Round2(num, scale) ==
  IF scale <= 2 THEN num * Pow10(2 - scale)
  ELSE LET d == Pow10(scale - 2)
           q == num \div d
           r == num % d
       IN  IF 2 * r > d \/ (2 * r = d /\ q % 2 = 1) THEN q + 1 ELSE q

\* pd.to_numeric(clean_amount, errors='coerce').fillna(0).round(2), in cents
VendorAmount(raw) ==
  LET n == ToNumeric(CleanAmountText(raw))
  IN  IF n.na THEN 0
      ELSE IF n.neg THEN -Round2(n.num, n.scale) ELSE Round2(n.num, n.scale)

\* pd.to_numeric(clean_amount, errors='coerce').fillna(0).abs().round(2)
InternalAmount(raw) ==
  LET n == ToNumeric(CleanAmountText(raw))
  IN  IF n.na THEN 0 ELSE Round2(n.num, n.scale)

\* A raw statement is [cols |-> header, rows |-> sequence of rows], a row
\* being the sequence of its cells in header order.
VendorInvCol(df) ==
  LET cols == NormalizeColumns(df.cols)
  IN  FirstCol([i \in 1..Len(cols) |-> IsVendorInvCol(cols[i])])
VendorAmtCol(df) ==
  LET cols == NormalizeColumns(df.cols)
  IN  FirstCol([i \in 1..Len(cols) |-> IsVendorAmtCol(cols[i])])
InternalInvCol(df) ==
  LET cols == NormalizeColumns(df.cols)
  IN  FirstCol([i \in 1..Len(cols) |-> IsInternalInvCol(cols[i])])
InternalAmtCol(df) ==
  LET cols == NormalizeColumns(df.cols)
  IN  FirstCol([i \in 1..Len(cols) |-> IsInternalAmtCol(cols[i])])

\* if not inv_col or not amt_col: raise ValueError(...)
VendorSchemaFound(df) == VendorInvCol(df) # 0 /\ VendorAmtCol(df) # 0
InternalSchemaFound(df) == InternalInvCol(df) # 0 /\ InternalAmtCol(df) # 0

\* df[['clean_id', 'clean_amount']]
clean_vendor_data(df) ==
  [i \in 1..Len(df.rows) |->
     [clean_id |-> CleanId(df.rows[i][VendorInvCol(df)]),
      clean_amount |-> VendorAmount(df.rows[i][VendorAmtCol(df)])]]

clean_internal_data(df) ==
  [i \in 1..Len(df.rows) |->
     [clean_id |-> CleanId(df.rows[i][InternalInvCol(df)]),
      clean_amount |-> InternalAmount(df.rows[i][InternalAmtCol(df)])]]

\* ------------------------------------------------------------------
\* Reconciliation: pd.merge(vendor, internal, on="clean_id", how="outer")
\* ------------------------------------------------------------------
NaN == [na |-> TRUE, val |-> 0]
Num(x) == [na |-> FALSE, val |-> x]

\* Series.fillna(0)
FillNa0(x) == IF x.na THEN 0 ELSE x.val

RECURSIVE SortKeys(_)
SortKeys(S) ==
  IF S = {} THEN <<>>
  ELSE LET m == CHOOSE x \in S : \A y \in S \ {x} : StrLess(x, y)
       IN  <<m>> \o SortKeys(S \ {m})

\* positions of the rows of df whose clean_id is k, in row order
RowsWithKey(df, k) ==
  LET Hit(i) == df[i].clean_id = k
  IN  SelectSeq([i \in 1..Len(df) |-> i], Hit)

\* the rows of the merge for one key: every left occurrence paired with
\* every right occurrence, or the one side alone with NaN for the other
MergeKey(vendor, internal, k) ==
  LET L == RowsWithKey(vendor, k)
      R == RowsWithKey(internal, k)
  IN  IF R = <<>>
      THEN [n \in 1..Len(L) |->
              [clean_id |-> k,
               clean_amount_vendor |-> Num(vendor[L[n]].clean_amount),
               clean_amount_internal |-> NaN]]
      ELSE IF L = <<>>
      THEN [n \in 1..Len(R) |->
              [clean_id |-> k,
               clean_amount_vendor |-> NaN,
               clean_amount_internal |-> Num(internal[R[n]].clean_amount)]]
      ELSE [n \in 1..(Len(L) * Len(R)) |->
              [clean_id |-> k,
               clean_amount_vendor |->
                 Num(vendor[L[((n - 1) \div Len(R)) + 1]].clean_amount),
               clean_amount_internal |->
                 Num(internal[R[((n - 1) % Len(R)) + 1]].clean_amount)]]

RECURSIVE MergeKeys(_, _, _)
MergeKeys(vendor, internal, ks) ==
  IF ks = <<>> THEN <<>>
  ELSE MergeKey(vendor, internal, Head(ks))
         \o MergeKeys(vendor, internal, Tail(ks))

\* the outer merge: the union of the keys of both frames in lexicographic
\* order
OuterMerge(vendor, internal) ==
  MergeKeys(vendor, internal,
            SortKeys({vendor[i].clean_id : i \in 1..Len(vendor)}
                       \cup {internal[i].clean_id : i \in 1..Len(internal)}))

\* (clean_amount_vendor.fillna(0) - clean_amount_internal.fillna(0)).round(2)
Variance(row) ==
  FillNa0(row.clean_amount_vendor) - FillNa0(row.clean_amount_internal)

\* a status text without a suggestion
Status(text) == [text |-> text, match |-> <<>>, score |-> 0]

\* f"Suggested Match: {match} ({score}%)"
SuggestedMatch(match, score) ==
  [text |-> "Suggested Match", match |-> match, score |-> score]

Tolerance == 5   \* 0.05, in cents

\* variant: an amount of 0 is taken for a missing one
get_status_ZeroIsMissing(row) ==
  IF FillNa0(row.clean_amount_vendor) = 0 THEN Status("Missing in Vendor")
  ELSE IF FillNa0(row.clean_amount_internal) = 0 THEN Status("Missing in Books")
  ELSE IF Abs(row.Variance) > Tolerance THEN Status("Amount Mismatch")
  ELSE Status("Matched")

\* variant: the comparison with the tolerance is not strict
get_status_Inclusive(row) ==
  IF row.clean_amount_vendor.na THEN Status("Missing in Vendor")
  ELSE IF row.clean_amount_internal.na THEN Status("Missing in Books")
  ELSE IF Abs(row.Variance) >= Tolerance THEN Status("Amount Mismatch")
  ELSE Status("Matched")

get_status(row) ==
  IF row.clean_amount_vendor.na THEN Status("Missing in Vendor")
  ELSE IF row.clean_amount_internal.na THEN Status("Missing in Books")
  ELSE IF Abs(row.Variance) > Tolerance THEN Status("Amount Mismatch")
  ELSE Status("Matched")

\* recon.rename(columns={...})
RenameColumns(row) ==
  [InvoiceNumber |-> row.clean_id,
   AsPerVendor |-> row.clean_amount_vendor,
   AsPerBooks |-> row.clean_amount_internal,
   Variance |-> row.Variance,
   status |-> row.status]

\* ------------------------------------------------------------------
\* Fuzzy check: thefuzz process.extractOne with its default processor and
\* scorer (WRatio)
\* ------------------------------------------------------------------
Threshold == 90
MinKeyLen == 6

Blank(c) == IF IsWordChar(c) THEN c ELSE " "

\* the default processor: non-word characters to blanks, lower case, strip
FullProcess(s) == StrStrip(StrLower([i \in 1..Len(s) |-> Blank(s[i])]))

\* n / d rounded to the nearest integer, a tie going to the even one
RoundDiv(n, d) ==
  LET q == n \div d
      r == n % d
  IN  IF 2 * r > d \/ (2 * r = d /\ q % 2 = 1) THEN q + 1 ELSE q

Max2(a, b) == IF a >= b THEN a ELSE b
Min2(a, b) == IF a <= b THEN a ELSE b

\* length of the longest common subsequence
RECURSIVE LCS(_, _)
LCS(a, b) ==
  IF a = <<>> \/ b = <<>> THEN 0
  ELSE IF Head(a) = Head(b) THEN 1 + LCS(Tail(a), Tail(b))
  ELSE Max2(LCS(Tail(a), b), LCS(a, Tail(b)))

\* fuzz.ratio: 100 * 2 * matches / total length, rounded
Ratio(a, b) ==
  IF Len(a) + Len(b) = 0 THEN 100
  ELSE RoundDiv(200 * LCS(a, b), Len(a) + Len(b))

\* fuzz.partial_ratio: the best ratio of the shorter text against a window
\* of its length sliding over the longer one
PartialRatio(a, b) ==
  LET short == IF Len(a) <= Len(b) THEN a ELSE b
      long == IF Len(a) <= Len(b) THEN b ELSE a
      m == Len(short)
      n == Len(long)
      Window(k) == SubSeq(long, Max2(1, k), Min2(n, k + m - 1))
      scores == {Ratio(short, Window(k)) : k \in (2 - m)..n}
  IN  CHOOSE x \in scores : \A y \in scores : y <= x

\* fuzz.WRatio on processed texts of one token each: the token scorers
\* equal the plain ones there and are scaled down by 0.95, so the result is
\* the ratio, or the scaled partial ratio when the lengths differ by a
\* factor of 1.5 or more.
WRatio(s1, s2) ==
  LET p1 == FullProcess(s1)
      p2 == FullProcess(s2)
      lo == Min2(Len(p1), Len(p2))
      hi == Max2(Len(p1), Len(p2))
      base == Ratio(p1, p2)
      try_partial == 2 * hi >= 3 * lo
      partial == IF hi > 8 * lo
                 THEN RoundDiv(PartialRatio(p1, p2) * 6, 10)
                 ELSE RoundDiv(PartialRatio(p1, p2) * 9, 10)
  IN  IF p1 = <<>> \/ p2 = <<>> THEN 0
      ELSE IF try_partial THEN Max2(base, partial)
      ELSE base

\* process.extractOne(query, choices): the first choice of the best score
extractOne(query, choices) ==
  LET i == CHOOSE i \in 1..Len(choices) :
             /\ \A j \in 1..Len(choices) :
                  WRatio(query, choices[j]) <= WRatio(query, choices[i])
             /\ \A j \in 1..(i - 1) :
                  WRatio(query, choices[j]) < WRatio(query, choices[i])
  IN  [match |-> choices[i], score |-> WRatio(query, choices[i])]

\* internal_df['clean_id'].dropna().unique().tolist()
RECURSIVE Unique(_)
Unique(s) ==
  IF s = <<>> THEN <<>>
  ELSE LET front == Unique(SubSeq(s, 1, Len(s) - 1))
           last == s[Len(s)]
       IN  IF last \in Range(front) THEN front ELSE Append(front, last)

Choices(internal_df) ==
  Unique([i \in 1..Len(internal_df) |-> internal_df[i].clean_id])

\* variant: rows of vendor amount 0 are checked too
FuzzyEligible_AnyAmount(row, choices) ==
  /\ row.status = Status("Missing in Books")
  /\ Len(row.InvoiceNumber) >= MinKeyLen
  /\ choices # <<>>

\* the condition of the loop body of perform_fuzzy_check
FuzzyEligible(row, choices) ==
  /\ row.status = Status("Missing in Books")
  /\ ~row.AsPerVendor.na
  /\ row.AsPerVendor.val > 0
  /\ Len(row.InvoiceNumber) >= MinKeyLen
  /\ choices # <<>>

FuzzyRow(row, choices, threshold) ==
  IF FuzzyEligible(row, choices)
  THEN LET best == extractOne(row.InvoiceNumber, choices)
       IN  IF best.score >= threshold
           THEN [row EXCEPT !.status = SuggestedMatch(best.match, best.score)]
           ELSE row
  ELSE row

perform_fuzzy_check(recon_df, internal_df, threshold) ==
  [i \in 1..Len(recon_df) |->
     FuzzyRow(recon_df[i], Choices(internal_df), threshold)]

\* ------------------------------------------------------------------
\* State of one run of the main logic
\* ------------------------------------------------------------------
VARIABLES
  pc,                   \* position of the run in the main logic
  df_vendor_raw,        \* the vendor statement as read
  df_internal_raw,      \* the internal statement as read
  vendor,               \* clean_vendor_data(df_vendor_raw)
  internal,             \* clean_internal_data(df_internal_raw)
  recon,                \* the reconciliation frame
  error,                \* message of the ValueError that ended the run
  other_exceptions_df,
  missing_vendor_df,
  matched_df

vars == <<pc, df_vendor_raw, df_internal_raw, vendor, internal, recon, error,
          other_exceptions_df, missing_vendor_df, matched_df>>

\* sequences over S of length at most n
BoundedSeq(S, n) == UNION {[1..k -> S] : k \in 0..n}

\* ------------------------------------------------------------------
\* Inputs
\* ------------------------------------------------------------------
VendorHeader == <<<<"I","n","v","o","i","c","e"," ","N","o">>, <<" ","A","m","o","u","n","t"," ","D","u","e"," ">>>>
InternalHeader == <<<<"E","x","t","e","r","n","a","l"," ","D","o","c","u","m","e","n","t"," ","N","o",".">>, <<"A","m","o","u","n","t">>>>

\* rows <<invoice cell, amount cell>> the vendor statement is made of
VendorPool ==
  {<<<<"A","B","C","1","2","3">>, <<"5","0",".","0","0">>>>,
   <<<<"a","b","c","-","1","2","3">>, <<"(","5","0",".","0","5",")">>>>,
   <<<<"0","0","0","4","2">>, <<"0",".","0","5","0","1">>>>,
   <<<<"4","2">>, <<"0">>>>,
   <<<<"0","0","0">>, <<"7",".","0","0">>>>}

\* rows <<document cell, amount cell>> the internal statement is made of
InternalPool ==
  {<<<<"A","B","C","1","2","3","4">>, <<"-","5","0",".","0","0">>>>,
   <<<<"A","B","C","1","2","3">>, <<"5","0",".","0","5">>>>,
   <<<<"4","2">>, <<"0">>>>,
   <<<<"0","0","4","2">>, <<"0",".","0","6">>>>,
   <<<<"-","-","-">>, <<"7",".","0","0">>>>}

Statement(cols, rows) == [cols |-> cols, rows |-> rows]

InitRun ==
  /\ pc = "start"
  /\ vendor = <<>>
  /\ internal = <<>>
  /\ recon = <<>>
  /\ error = ""
  /\ other_exceptions_df = <<>>
  /\ missing_vendor_df = <<>>
  /\ matched_df = <<>>

\* a run over statements of up to MaxRows rows each
Init ==
  /\ InitRun
  /\ \E rows \in BoundedSeq(VendorPool, MaxRows) :
       df_vendor_raw = Statement(VendorHeader, rows)
  /\ \E rows \in BoundedSeq(InternalPool, MaxRows) :
       df_internal_raw = Statement(InternalHeader, rows)

\* ------------------------------------------------------------------
\* Steps of the main logic
\* ------------------------------------------------------------------
\* vendor = clean_vendor_data(df_vendor_raw)
CleanVendor ==
  /\ pc = "start"
  /\ IF VendorSchemaFound(df_vendor_raw)
     THEN /\ vendor' = clean_vendor_data(df_vendor_raw)
          /\ pc' = "vendor_cleaned"
          /\ error' = error
     ELSE /\ vendor' = vendor
          /\ pc' = "failed"
          /\ error' = "Vendor invoice/amount columns not found"
  /\ UNCHANGED <<df_vendor_raw, df_internal_raw, internal, recon,
                 other_exceptions_df, missing_vendor_df, matched_df>>

\* internal = clean_internal_data(df_internal_raw)
CleanInternal ==
  /\ pc = "vendor_cleaned"
  /\ IF InternalSchemaFound(df_internal_raw)
     THEN /\ internal' = clean_internal_data(df_internal_raw)
          /\ pc' = "internal_cleaned"
          /\ error' = error
     ELSE /\ internal' = internal
          /\ pc' = "failed"
          /\ error' = "Internal required columns missing"
  /\ UNCHANGED <<df_vendor_raw, df_internal_raw, vendor, recon,
                 other_exceptions_df, missing_vendor_df, matched_df>>

\* recon = pd.merge(vendor, internal, on="clean_id", how="outer", ...)
Merge ==
  /\ pc = "internal_cleaned"
  /\ recon' = OuterMerge(vendor, internal)
  /\ pc' = "merged"
  /\ UNCHANGED <<df_vendor_raw, df_internal_raw, vendor, internal, error,
                 other_exceptions_df, missing_vendor_df, matched_df>>

\* recon['Variance'] = (...).round(2)
ComputeVariance ==
  /\ pc = "merged"
  /\ recon' = [i \in 1..Len(recon) |->
                 [clean_id |-> recon[i].clean_id,
                  clean_amount_vendor |-> recon[i].clean_amount_vendor,
                  clean_amount_internal |-> recon[i].clean_amount_internal,
                  Variance |-> Variance(recon[i])]]
  /\ pc' = "variance"
  /\ UNCHANGED <<df_vendor_raw, df_internal_raw, vendor, internal, error,
                 other_exceptions_df, missing_vendor_df, matched_df>>

\* recon['status'] = recon.apply(get_status, axis=1); recon = recon.rename(...)
ApplyStatus ==
  /\ pc = "variance"
  /\ recon' = [i \in 1..Len(recon) |->
                 RenameColumns(
                   [clean_id |-> recon[i].clean_id,
                    clean_amount_vendor |-> recon[i].clean_amount_vendor,
                    clean_amount_internal |-> recon[i].clean_amount_internal,
                    Variance |-> recon[i].Variance,
                    status |-> get_status(recon[i])])]
  /\ pc' = "classified"
  /\ UNCHANGED <<df_vendor_raw, df_internal_raw, vendor, internal, error,
                 other_exceptions_df, missing_vendor_df, matched_df>>

\* recon = perform_fuzzy_check(recon, internal)
FuzzyCheck ==
  /\ pc = "classified"
  /\ recon' = perform_fuzzy_check(recon, internal, Threshold)
  /\ pc' = "checked"
  /\ UNCHANGED <<df_vendor_raw, df_internal_raw, vendor, internal, error,
                 other_exceptions_df, missing_vendor_df, matched_df>>

IsOtherException(row) ==
  row.status \notin {Status("Missing in Vendor"), Status("Matched")}
IsMissingVendor(row) == row.status = Status("Missing in Vendor")
IsMatched(row) == row.status = Status("Matched")

\* the three buckets shown and exported
Buckets ==
  /\ pc = "checked"
  /\ other_exceptions_df' = SelectSeq(recon, IsOtherException)
  /\ missing_vendor_df' = SelectSeq(recon, IsMissingVendor)
  /\ matched_df' = SelectSeq(recon, IsMatched)
  /\ pc' = "done"
  /\ UNCHANGED <<df_vendor_raw, df_internal_raw, vendor, internal, recon,
                 error>>

Next ==
  \/ CleanVendor
  \/ CleanInternal
  \/ Merge
  \/ ComputeVariance
  \/ ApplyStatus
  \/ FuzzyCheck
  \/ Buckets

Spec == Init /\ [][Next]_vars

\* ------------------------------------------------------------------
\* Properties of the reconciliation run
\* ------------------------------------------------------------------
VendorKeys == {vendor[i].clean_id : i \in 1..Len(vendor)}
InternalKeys == {internal[i].clean_id : i \in 1..Len(internal)}

\* the reconciliation frame exists, under the column names of the merge
Merged == pc \in {"merged", "variance"}
\* the reconciliation frame exists, under its final column names
Renamed == pc \in {"classified", "checked", "done"}

\* the key column of the reconciliation frame
ReconKeys ==
  IF Merged THEN [i \in 1..Len(recon) |-> recon[i].clean_id]
  ELSE IF Renamed THEN [i \in 1..Len(recon) |-> recon[i].InvoiceNumber]
  ELSE <<>>

RowsOfKey(k) == {i \in 1..Len(ReconKeys) : ReconKeys[i] = k}

\* C1: the outer merge yields exactly one row for every canonical key of
\* either record set, repeated keys included, and no row for any other key.
C1_JoinCompleteness ==
  (Merged \/ Renamed) =>
     /\ \A k \in VendorKeys \cup InternalKeys : Cardinality(RowsOfKey(k)) = 1
     /\ \A i \in 1..Len(ReconKeys) : ReconKeys[i] \in VendorKeys \cup InternalKeys

\* C2: the status of every joined row follows the fixed priority, and the
\* first two branches are decided by the key being absent from a side, not
\* by the amounts: a key absent from the vendor side is Missing in Vendor,
\* else a key absent from the internal side is Missing in Books, else the
\* row is Amount Mismatch when abs(Variance) > 0.05 and Matched otherwise.
C2_StatusPriority ==
  pc = "classified" =>
    \A i \in 1..Len(recon) :
      LET row == recon[i]
      IN  IF row.InvoiceNumber \notin VendorKeys
          THEN row.status = Status("Missing in Vendor")
          ELSE IF row.InvoiceNumber \notin InternalKeys
          THEN row.status = Status("Missing in Books")
          ELSE IF row.Variance > 5 \/ row.Variance < -5
          THEN row.status = Status("Amount Mismatch")
          ELSE row.status = Status("Matched")

\* a key of the internal side alone with amount 0 is Missing in Vendor, next
\* to a key of both sides with vendor amount 0 that is Matched
C2_Witness ==
  /\ pc = "classified"
  /\ \E i \in 1..Len(recon) :
       /\ recon[i].InvoiceNumber \notin VendorKeys
       /\ recon[i].AsPerBooks = Num(0)
       /\ recon[i].status = Status("Missing in Vendor")
  /\ \E i \in 1..Len(recon) :
       /\ recon[i].InvoiceNumber \in VendorKeys \cap InternalKeys
       /\ 0 \in {recon[i].AsPerVendor.val, recon[i].AsPerBooks.val}
       /\ recon[i].status \in {Status("Matched"), Status("Amount Mismatch")}

\* C3: the fuzzy check leaves the status of every row as the matcher
\* assigned it.
C3_StatusUnchanged ==
  [][pc = "classified" =>
       /\ Len(recon') = Len(recon)
       /\ \A i \in 1..Len(recon) : recon'[i].status = recon[i].status]_vars

\* C4: no row of the reconciliation has an empty Invoice Number.
C4_NoEmptyKeyRow ==
  \A i \in 1..Len(ReconKeys) : ReconKeys[i] # <<>>

\* amount of the last row of df whose clean_id is k
LastAmount(df, k) ==
  LET R == RowsWithKey(df, k)
  IN  df[R[Len(R)]].clean_amount

\* C6: a key repeated within one side yields a single row, which carries
\* the amount of the last occurrence of the key on that side, and whose
\* variance is computed from that amount.
C6_LastWriteWins ==
  Renamed =>
    \A i \in 1..Len(recon) :
      LET row == recon[i]
          k == row.InvoiceNumber
          v == IF k \in VendorKeys THEN LastAmount(vendor, k) ELSE 0
          b == IF k \in InternalKeys THEN LastAmount(internal, k) ELSE 0
      IN  /\ Cardinality(RowsOfKey(k)) = 1
          /\ k \in VendorKeys => row.AsPerVendor = Num(v)
          /\ k \in InternalKeys => row.AsPerBooks = Num(b)
          /\ row.Variance = v - b

\* exact value of an amount cell in units of 0.0001 (cells of at most 4
\* decimals), 0 for a cell that is not a number
ExactAmount(cell) ==
  LET n == ToNumeric(CleanAmountText(cell))
  IN  IF n.na THEN 0
      ELSE IF n.neg THEN -(n.num * Pow10(4 - n.scale))
      ELSE n.num * Pow10(4 - n.scale)

Decimals(cell) == ToNumeric(CleanAmountText(cell)).scale

\* the run reconciles one vendor row with one internal row of the same key
OnePair ==
  /\ Len(vendor) = 1
  /\ Len(internal) = 1
  /\ vendor[1].clean_id = internal[1].clean_id
  /\ Decimals(df_vendor_raw.rows[1][VendorAmtCol(df_vendor_raw)]) <= 4
  /\ Decimals(df_internal_raw.rows[1][InternalAmtCol(df_internal_raw)]) <= 4

\* vendor amount minus internal amount of the pair as written in the cells,
\* in units of 0.0001
PairDifference ==
  ExactAmount(df_vendor_raw.rows[1][VendorAmtCol(df_vendor_raw)])
    - Abs(ExactAmount(df_internal_raw.rows[1][InternalAmtCol(df_internal_raw)]))

\* C7 (as stated): for a key of both sides a vendor-minus-internal
\* difference of exactly 0.05 yields Matched and one of 0.0501 yields
\* Amount Mismatch.
C7_MismatchBoundary ==
  (pc = "classified" /\ OnePair) =>
     /\ Abs(PairDifference) = 500 => recon[1].status = Status("Matched")
     /\ Abs(PairDifference) = 501 => recon[1].status = Status("Amount Mismatch")

\* C7 (amended): the comparison is strict and is made on the amounts after
\* each has been rounded to 2 decimals: a row of a key of both sides is
\* Amount Mismatch exactly when its two rounded amounts differ by more than
\* 0.05, so a rounded difference of exactly 0.05 in either direction is
\* Matched; a vendor cell 0.0501 against an internal cell 0 rounds to 0.05
\* against 0.00 and is Matched.
C7_RoundedBoundary ==
  pc = "classified" =>
    /\ \A i \in 1..Len(recon) :
         LET row == recon[i]
             k == row.InvoiceNumber
         IN  k \in VendorKeys \cap InternalKeys =>
               \E l \in 1..Len(vendor), r \in 1..Len(internal) :
                 /\ vendor[l].clean_id = k
                 /\ internal[r].clean_id = k
                 /\ row.AsPerVendor = Num(vendor[l].clean_amount)
                 /\ row.AsPerBooks = Num(internal[r].clean_amount)
                 /\ LET d == vendor[l].clean_amount - internal[r].clean_amount
                    IN  /\ (d >= 6 \/ d <= -6) =>
                             row.status = Status("Amount Mismatch")
                        /\ (d <= 5 /\ d >= -5) =>
                             row.status = Status("Matched")
    /\ (OnePair /\ PairDifference = 501 /\ internal[1].clean_amount = 0) =>
         recon[1].status = Status("Matched")

\* rounded amounts exactly 0.05 apart in both directions, both Matched, the
\* first from a vendor cell 0.0501
C7_Witness ==
  /\ pc = "classified"
  /\ \E i \in 1..Len(recon) :
       /\ recon[i].AsPerVendor = Num(5)
       /\ recon[i].AsPerBooks = Num(0)
       /\ recon[i].status = Status("Matched")
  /\ \E i \in 1..Len(recon) :
       /\ recon[i].Variance = -5
       /\ recon[i].status = Status("Matched")

\* C10: the fuzzy check keeps the rows, their order and their Invoice
\* Number, As per Vendor, As per Books and Variance; it changes the status
\* only of a row that was Missing in Books with a vendor amount above 0 and
\* a key of 6 or more characters, only when the internal side has keys and
\* the score reaches the threshold, and the key it names is a clean id of
\* the internal side; with no internal keys it returns the rows unchanged.
C10_FuzzyFrame ==
  [][pc = "classified" =>
       /\ pc' = "checked"
       /\ Len(recon') = Len(recon)
       /\ \A i \in 1..Len(recon) :
            /\ recon'[i].InvoiceNumber = recon[i].InvoiceNumber
            /\ recon'[i].AsPerVendor = recon[i].AsPerVendor
            /\ recon'[i].AsPerBooks = recon[i].AsPerBooks
            /\ recon'[i].Variance = recon[i].Variance
            /\ recon'[i].status # recon[i].status =>
                 /\ recon[i].status = Status("Missing in Books")
                 /\ recon[i].AsPerVendor.val > 0
                 /\ Len(recon[i].InvoiceNumber) >= 6
                 /\ InternalKeys # {}
                 /\ recon'[i].status.text = "Suggested Match"
                 /\ recon'[i].status.score >= 90
                 /\ recon'[i].status.match \in InternalKeys
       /\ InternalKeys = {} => recon' = recon]_vars

\* the check has run, it has suggested a match for one row and has left
\* alone a Missing in Books row whose vendor amount is 0
C10_Witness ==
  /\ pc = "checked"
  /\ \E i \in 1..Len(recon) : recon[i].status.text = "Suggested Match"
  /\ \E i \in 1..Len(recon) :
       /\ recon[i].status = Status("Missing in Books")
       /\ recon[i].AsPerVendor = Num(0)
       /\ Len(recon[i].InvoiceNumber) >= 6

\* ------------------------------------------------------------------
\* Runs over enumerated identifiers
\* ------------------------------------------------------------------
IdAlphabet == {"a", "A", "0", "4", "-", "_"}

ExampleIds ==
  {<<"0","0","0","4","2">>,
   <<"4","2">>,
   <<"I","N","V","-","0","0","4","2">>,
   <<"I","N","V","-","0","0","0","1">>,
   <<"i","n","v","0","0","0","1">>,
   <<"0","0","0","1">>}

\* s with the character c put in front of position p + 1
Insert(s, p, c) == SubSeq(s, 1, p) \o <<c>> \o SubSeq(s, p + 1, Len(s))

\* ways of writing the identifier s differently: leading zeros, another
\* case, punctuation or blanks between its characters
Variants(s) ==
  {s, <<"0">> \o s, <<"0", "0">> \o s, StrLower(s), StrUpper(s)}
    \cup {Insert(s, p, "-") : p \in 0..Len(s)}
    \cup {Insert(s, p, " ") : p \in 0..Len(s)}

OneAmount == <<"1",".","0","0">>

\* the vendor statement holds one identifier, the internal statement the
\* same identifier written differently
InitId ==
  /\ InitRun
  /\ \E s \in BoundedSeq(IdAlphabet, MaxIdLen) \cup ExampleIds :
       /\ df_vendor_raw = Statement(VendorHeader, << <<s, OneAmount>> >>)
       /\ \E t \in Variants(s) :
            df_internal_raw = Statement(InternalHeader, << <<t, OneAmount>> >>)

SpecId == InitId /\ [][Next]_vars

\* ------------------------------------------------------------------
\* Runs over enumerated amount cells
\* ------------------------------------------------------------------
AmtAlphabet == {"1", "5", ".", "(", ")", "-", ",", "$"}

ExampleAmts ==
  {<<"(","1",",","2","3","4",".","5","0",")">>,
   <<"$","1",",","2","3","4",".","5","0">>,
   <<"-","1","0","0",".","0","0">>,
   <<"(","5",")">>}

OneId == <<"7">>

\* both statements hold one row with the same amount cell
InitAmt ==
  /\ InitRun
  /\ \E a \in BoundedSeq(AmtAlphabet, MaxAmtLen) \cup ExampleAmts :
       /\ df_vendor_raw = Statement(VendorHeader, << <<OneId, a>> >>)
       /\ df_internal_raw = Statement(InternalHeader, << <<OneId, a>> >>)

SpecAmt == InitAmt /\ [][Next]_vars

\* ------------------------------------------------------------------
\* Runs over enumerated headers
\* ------------------------------------------------------------------
VendorColumnNames ==
  {<<"I","n","v","o","i","c","e"," ","#">>,
   <<" ","I","N","V"," ","N","O"," ">>,
   <<"V","o","u","c","h","e","r"," ","R","e","f">>,
   <<"T","o","t","a","l">>,
   <<"A","m","o","u","n","t"," ","D","u","e">>,
   <<"B","a","l","a","n","c","e"," ","d","u","e">>,
   <<"I","n","v","o","i","c","e"," ","A","m","o","u","n","t">>}

InternalColumnNames ==
  {<<"E","x","t","e","r","n","a","l"," ","D","o","c","u","m","e","n","t"," ","N","o",".">>,
   <<" ","D","O","C","U","M","E","N","T"," ","(","E","X","T","E","R","N","A","L",")"," ">>,
   <<"D","o","c","u","m","e","n","t"," ","N","o">>,
   <<"R","e","f"," ","I","d">>,
   <<" ","A","M","O","U","N","T"," ">>,
   <<"A","m","o","u","n","t"," ","(","L","C","Y",")">>,
   <<"T","o","t","a","l">>}

\* headers of up to MaxCols columns whose normalised names differ
Headers(names) ==
  {h \in BoundedSeq(names, MaxCols) :
     \A i, j \in 1..Len(h) :
       i # j => NormalizeColumns(h)[i] # NormalizeColumns(h)[j]}

\* the one row of a statement of n columns: the cell of column j is the
\* digit j
DigitRow(n) == [j \in 1..n |-> <<Digits[j + 1]>>]

InitSchema ==
  /\ InitRun
  /\ \E h \in Headers(VendorColumnNames) :
       df_vendor_raw = Statement(h, <<DigitRow(Len(h))>>)
  /\ \E h \in Headers(InternalColumnNames) :
       df_internal_raw = Statement(h, <<DigitRow(Len(h))>>)

SpecSchema == InitSchema /\ [][Next]_vars

\* ------------------------------------------------------------------
\* Properties of the cleaning
\* ------------------------------------------------------------------
\* both statements have been cleaned
Cleaned == pc \notin {"start", "vendor_cleaned", "failed"}

\* the identifier and amount cells of the first row of each statement
VendorIdCell == df_vendor_raw.rows[1][VendorInvCol(df_vendor_raw)]
InternalIdCell == df_internal_raw.rows[1][InternalInvCol(df_internal_raw)]
VendorAmtCell == df_vendor_raw.rows[1][VendorAmtCol(df_vendor_raw)]

Parenthesized(cell) ==
  /\ Len(cell) >= 3
  /\ cell[1] = "("
  /\ cell[Len(cell)] = ")"
  /\ LET n == ToNumeric(CleanAmountText(SubSeq(cell, 2, Len(cell) - 1)))
     IN  ~n.na /\ ~n.neg /\ n.num # 0

\* C8: "(1,234.50)" is cleaned to -1234.50 and "$1,234.50" to 1234.50, and
\* an amount in parentheses is never taken for 0 as an unreadable cell is.
C8_SignHandling ==
  (Cleaned /\ Len(vendor) = 1) =>
     /\ VendorAmtCell = <<"(","1",",","2","3","4",".","5","0",")">> => vendor[1].clean_amount = -123450
     /\ VendorAmtCell = <<"$","1",",","2","3","4",".","5","0">> => vendor[1].clean_amount = 123450
     /\ Parenthesized(VendorAmtCell) => vendor[1].clean_amount < 0

\* the column names of a statement after strip and lower
VendorCols == NormalizeColumns(df_vendor_raw.cols)
InternalCols == NormalizeColumns(df_internal_raw.cols)

HasAny(cols, kws) ==
  \E j \in 1..Len(cols) : \E kw \in kws : Contains(kw, cols[j])

\* the keywords the specification lists
SpecIdKeywords ==
  {<<"i","n","v">>, <<"n","u","m">>, <<"i","d">>, <<"r","e","f">>, <<"v","o","u","c","h","e","r">>, <<"e","x","t","e","r","n","a","l"," ","d","o","c","u","m","e","n","t"," ","n","u","m","b","e","r">>}
SpecAmtKeywords == {<<"a","m","t">>, <<"v","a","l">>, <<"t","o","t","a","l">>, <<"a","m","o","u","n","t">>, <<"d","u","e">>, <<"p","r","i","c","e">>}

VendorFailed == pc = "failed" /\ error = "Vendor invoice/amount columns not found"
InternalFailed == pc = "failed" /\ error = "Internal required columns missing"

\* C9 (as stated): resolution fails for a statement exactly when no column
\* name holds an identifier keyword of the list or none holds an amount
\* keyword of the list, and succeeds on both sides otherwise.
C9_SchemaKeywords ==
  /\ pc # "start" =>
       (VendorFailed <=> \/ ~HasAny(VendorCols, SpecIdKeywords)
                         \/ ~HasAny(VendorCols, SpecAmtKeywords))
  /\ (pc \notin {"start", "vendor_cleaned"} /\ ~VendorFailed) =>
       (InternalFailed <=> \/ ~HasAny(InternalCols, SpecIdKeywords)
                           \/ ~HasAny(InternalCols, SpecAmtKeywords))

\* least element of a set of positions
Least(S) == CHOOSE j \in S : \A i \in S : j <= i

VendorIdName(c) == Contains(<<"i","n","v">>, c)
VendorAmtName(c) == Contains(<<"a","m","o","u","n","t">>, c) \/ Contains(<<"d","u","e">>, c)
InternalIdName(c) == Contains(<<"e","x","t","e","r","n","a","l">>, c) /\ Contains(<<"d","o","c","u","m","e","n","t">>, c)
InternalAmtName(c) == Contains(<<"a","m","o","u","n","t">>, c)

\* the columns of a side that can play a role, by position
VendorIdCols == {j \in 1..Len(VendorCols) : VendorIdName(VendorCols[j])}
VendorAmtCols == {j \in 1..Len(VendorCols) : VendorAmtName(VendorCols[j])}
InternalIdCols == {j \in 1..Len(InternalCols) : InternalIdName(InternalCols[j])}
InternalAmtCols == {j \in 1..Len(InternalCols) : InternalAmtName(InternalCols[j])}

\* C9 (amended): the vendor side fails exactly when no stripped, lower-cased
\* column name holds "inv" or none holds "amount" or "due"; the internal
\* side, reached only when the vendor side succeeded, fails exactly when no
\* name holds both "external" and "document" or none holds "amount"; a side
\* that succeeds takes the first such column from the left for each role
\* (the cell of column j being the digit j, the clean id is that digit and
\* the amount j.00).
C9_SchemaResolution ==
  /\ pc # "start" =>
       /\ VendorFailed <=> (VendorIdCols = {} \/ VendorAmtCols = {})
       /\ (~VendorFailed /\ Len(df_vendor_raw.rows) = 1) =>
            /\ Len(vendor) = 1
            /\ vendor[1].clean_id = <<Digits[Least(VendorIdCols) + 1]>>
            /\ vendor[1].clean_amount = 100 * Least(VendorAmtCols)
  /\ (pc \notin {"start", "vendor_cleaned"} /\ ~VendorFailed) =>
       /\ InternalFailed <=> (InternalIdCols = {} \/ InternalAmtCols = {})
       /\ (~InternalFailed /\ Len(df_internal_raw.rows) = 1) =>
            /\ Len(internal) = 1
            /\ internal[1].clean_id = <<Digits[Least(InternalIdCols) + 1]>>
            /\ internal[1].clean_amount = 100 * Least(InternalAmtCols)

\* both sides resolved with two candidate columns for a role on the vendor
\* side, the second column of the header being skipped for the first
C9_Witness ==
  /\ Cleaned
  /\ Len(VendorCols) = 2
  /\ VendorIdName(VendorCols[1]) /\ VendorAmtName(VendorCols[2])
  /\ VendorAmtName(VendorCols[1])
  /\ vendor[1].clean_id = <<"1">>
  /\ vendor[1].clean_amount = 100
  /\ internal[1].clean_id \in {<<"1">>, <<"2">>}

====
